---------------------------- MODULE Spec2Model ----------------------------
(***************************************************************************)
(* A model of the code quality analyser (src/main.py).                     *)
(*                                                                         *)
(* A text is a sequence of characters, each character a one-character      *)
(* string.  The analysed texts are built from lines of a small vocabulary  *)
(* of Python source lines; ast.parse, ast.walk, ast.get_docstring,         *)
(* compile and difflib.SequenceMatcher.ratio are modelled by what they do  *)
(* on that fragment of the language.                                       *)
(***************************************************************************)
EXTENDS Integers, Sequences, FiniteSets, TLC

VARIABLES
    code,      \* the text under analysis (the argument `code`)
    pc,        \* position of the caller
    tree,      \* the syntax tree instance handed to the tree walkers
    result,    \* the dictionary analyze_code fills
    naming,    \* what the latest check_naming_conventions call returned
    previous,  \* what the call before the latest returned
    calls,     \* number of check_naming_conventions calls on `tree`
    style,     \* what recommend_coding_style returned
    repeated,  \* what detect_repeated_code returned
    status     \* the exit status of the entry point

vars == <<code, pc, tree, result, naming, previous, calls, style, repeated, status>>

---------------------------------------------------------------------------
(* Bounds of the model.                                                    *)

MaxLines == 3
MaxCalls == 2

---------------------------------------------------------------------------
(* Characters and the str methods the program uses.                        *)

UpperSeq == <<"A","B","C","D","E","F","G","H","I","J","K","L","M","N","O","P","Q","R","S","T","U","V","W","X","Y","Z">>
LowerSeq == <<"a","b","c","d","e","f","g","h","i","j","k","l","m","n","o","p","q","r","s","t","u","v","w","x","y","z">>
DigitSeq == <<"0","1","2","3","4","5","6","7","8","9">>

Range(s) == {s[i] : i \in 1..Len(s)}

UpperChars == Range(UpperSeq)
LowerChars == Range(LowerSeq)
DigitChars == Range(DigitSeq)
\* One letter outside ASCII, a lowercase one, stands for all of them.
NonAsciiLower == {"e-acute"}
Whitespace == {" ", "\t", "\n", "\r", "\f"}

Max(S) == CHOOSE x \in S : \A y \in S : y <= x
Min(S) == CHOOSE x \in S : \A y \in S : x <= y

Drop(s, n) == SubSeq(s, n + 1, Len(s))
Take(s, n) == SubSeq(s, 1, n)

\* str.lower() of one character
LowerChar(c) ==
    IF c \in UpperChars
    THEN LowerSeq[CHOOSE i \in 1..Len(UpperSeq) : UpperSeq[i] = c]
    ELSE c

\* str.lower()
lower(s) == [i \in 1..Len(s) |-> LowerChar(s[i])]

\* str.islower(): at least one cased character and no uppercase one
islower(s) ==
    /\ \E i \in 1..Len(s) : s[i] \in LowerChars \cup NonAsciiLower
    /\ \A i \in 1..Len(s) : s[i] \notin UpperChars

\* str.isupper(): at least one cased character and no lowercase one
isupper(s) ==
    /\ \E i \in 1..Len(s) : s[i] \in UpperChars
    /\ \A i \in 1..Len(s) : s[i] \notin LowerChars \cup NonAsciiLower

\* str.startswith(p)
startswith(s, p) == Len(p) <= Len(s) /\ Take(s, Len(p)) = p

\* p in s
contains(s, p) ==
    \E i \in 0..(Len(s) - Len(p)) : SubSeq(s, i + 1, i + Len(p)) = p

\* The first position from i on, and the last up to j, that holds none of
\* the characters
RECURSIVE SkipForward(_, _, _)
SkipForward(s, i, chars) ==
    IF i > Len(s) \/ s[i] \notin chars THEN i ELSE SkipForward(s, i + 1, chars)

RECURSIVE SkipBackward(_, _, _)
SkipBackward(s, j, chars) ==
    IF j < 1 \/ s[j] \notin chars THEN j ELSE SkipBackward(s, j - 1, chars)

\* str.strip()
strip(s) == SubSeq(s, SkipForward(s, 1, Whitespace), SkipBackward(s, Len(s), Whitespace))

\* str.split(sep) for a one-character separator: always at least one piece
RECURSIVE split(_, _)
split(s, sep) ==
    LET at == {i \in 1..Len(s) : s[i] = sep}
    IN  IF at = {} THEN <<s>>
        ELSE <<Take(s, Min(at) - 1)>> \o split(Drop(s, Min(at)), sep)

\* re.match(r'^[a-zA-Z_][a-zA-Z0-9_]*$', s)
MatchesNamePattern(s) ==
    /\ Len(s) >= 1
    /\ s[1] \in UpperChars \cup LowerChars \cup {"_"}
    /\ \A i \in 2..Len(s) : s[i] \in UpperChars \cup LowerChars \cup DigitChars \cup {"_"}

RECURSIVE SortedSeq(_)
SortedSeq(S) == IF S = {} THEN <<>> ELSE <<Min(S)>> \o SortedSeq(S \ {Min(S)})

RECURSIVE SumSeq(_)
SumSeq(s) == IF s = <<>> THEN 0 ELSE Head(s) + SumSeq(Tail(s))

RECURSIVE Concat(_)
Concat(ss) == IF ss = <<>> THEN <<>> ELSE Head(ss) \o Concat(Tail(ss))

---------------------------------------------------------------------------
(* The analysed texts.                                                     *)

line_length_limit == 79

LongLine == [i \in 1..(line_length_limit + 1) |-> "x"]

\* The lines the scorers and the duplicate detector are given
TextVocabulary ==
    { <<>>,
      <<"#"," ","g","o","t","o">>,
      <<" "," ","#"," ","m","a","g","i","c","_","n","u","m","b","e","r">>,
      <<"m","a","g","i","c","_","n","u","m","b","e","r"," ","="," ","1">>,
      <<"d","e","f"," ","_","(",")",":"," ","p","a","s","s">>,
      <<"d","e","f"," ","f","(",")",":"," ","p","a","s","s">>,
      <<" "," "," "," ","d","e","f"," ","B","(",")",":"," ","p","a","s","s">> }

\* The lines the tree walkers and the style recommender are given
TreeVocabulary ==
    { <<"#"," ","g","o","t","o">>,
      <<"\"","d","\"">>,
      <<"d","e","f"," ","F","o","o","(",")",":">>,
      <<" "," "," "," ","d","e","f"," ","B","(",")",":"," ","p","a","s","s">>,
      <<" "," "," "," ","F","O","O">>,
      <<"d","e","f"," ","_","(",")",":"," ","p","a","s","s">>,
      <<"d","e","f"," ","f","(",")",":"," ","p","a","s","s">>,
      <<"r","e","t","u","r","n"," ","F","O","O">>,
      <<"c","l","a","s","s"," ","K",":"," ","p","a","s","s">>,
      <<"e-acute">>,
      LongLine }

\* "\n".join(ls)
RECURSIVE JoinLines(_)
JoinLines(ls) ==
    IF Len(ls) = 0 THEN <<>>
    ELSE IF Len(ls) = 1 THEN ls[1]
    ELSE ls[1] \o <<"\n">> \o JoinLines(Tail(ls))

\* The texts of at most MaxLines lines of a vocabulary, the empty text too
TextsOver(vocabulary) ==
    {<<>>} \cup
    UNION {{JoinLines(ls) : ls \in [1..n -> vocabulary]} : n \in 1..MaxLines}

---------------------------------------------------------------------------
(* ast.parse on the fragment of Python the vocabulary spans: simple        *)
(* statements (pass, return, return NAME, NAME, NAME = 1, a string         *)
(* literal), def NAME(): and class NAME: with an inline simple statement   *)
(* or an indented block, comment and blank lines, indentation by spaces.   *)

Keywords == { <<"d","e","f">>, <<"c","l","a","s","s">>, <<"r","e","t","u","r","n">>, <<"p","a","s","s">> }

IdStart == UpperChars \cup LowerChars \cup NonAsciiLower \cup {"_"}
IdCont == IdStart \cup DigitChars

IsIdentifier(s) ==
    /\ Len(s) >= 1
    /\ s[1] \in IdStart
    /\ \A i \in 2..Len(s) : s[i] \in IdCont
    /\ s \notin Keywords

NoStmt == [ok |-> FALSE, kind |-> "none", operands |-> <<>>]
Stmt(kind, operands) == [ok |-> TRUE, kind |-> kind, operands |-> operands]
NameExpr(id) == [kind |-> "Name", id |-> id, isstr |-> FALSE]
ConstantExpr(isstr) == [kind |-> "Constant", id |-> <<>>, isstr |-> isstr]

\* A simple statement, from its text without the surrounding whitespace
SimpleStmt(s) ==
    IF s = <<"p","a","s","s">> THEN Stmt("Pass", <<>>)
    ELSE IF s = <<"r","e","t","u","r","n">> THEN Stmt("Return", <<>>)
    ELSE IF startswith(s, <<"r","e","t","u","r","n"," ">>) /\ IsIdentifier(strip(Drop(s, 7)))
        THEN Stmt("Return", <<NameExpr(strip(Drop(s, 7)))>>)
    ELSE IF IsIdentifier(s) THEN Stmt("Expr", <<NameExpr(s)>>)
    ELSE IF Len(s) > 4 /\ Drop(s, Len(s) - 4) = <<" ","="," ","1">> /\ IsIdentifier(Take(s, Len(s) - 4))
        THEN Stmt("Assign", <<NameExpr(Take(s, Len(s) - 4)), ConstantExpr(FALSE)>>)
    ELSE IF /\ Len(s) >= 2
            /\ s[1] = "\"" /\ s[Len(s)] = "\""
            /\ \A i \in 2..(Len(s) - 1) : s[i] \notin {"\"", "\\"}
        THEN Stmt("Expr", <<ConstantExpr(TRUE)>>)
    ELSE NoStmt

LeadingSpaces(s) == SkipForward(s, 1, {" "}) - 1

Token(indent, kind, name, header, stmt) ==
    [indent |-> indent, kind |-> kind, name |-> name, header |-> header, stmt |-> stmt]

\* def NAME(): or class NAME: and what follows the colon on the line
Compound(indent, kind, name, tail) ==
    IF ~IsIdentifier(name) THEN Token(indent, "invalid", <<>>, FALSE, NoStmt)
    ELSE IF strip(tail) = <<>> THEN Token(indent, kind, name, TRUE, NoStmt)
    ELSE IF SimpleStmt(strip(tail)).ok THEN Token(indent, kind, name, FALSE, SimpleStmt(strip(tail)))
    ELSE Token(indent, "invalid", <<>>, FALSE, NoStmt)

\* One physical line: its indentation and the statement it starts
Lex(line) ==
    LET indent == LeadingSpaces(line)
        s == strip(line)
    IN  IF s = <<>> \/ s[1] = "#" THEN Token(0, "skip", <<>>, FALSE, NoStmt)
        ELSE IF startswith(s, <<"d","e","f"," ">>) /\ contains(s, <<"(",")",":">>)
            THEN LET p == Min({i \in 1..(Len(s) - 2) : SubSeq(s, i, i + 2) = <<"(",")",":">>})
                 IN  Compound(indent, "FunctionDef", SubSeq(s, 5, p - 1), Drop(s, p + 2))
        ELSE IF startswith(s, <<"c","l","a","s","s"," ">>) /\ contains(s, <<":">>)
            THEN LET p == Min({i \in 1..Len(s) : s[i] = ":"})
                 IN  Compound(indent, "ClassDef", SubSeq(s, 7, p - 1), Drop(s, p))
        ELSE IF SimpleStmt(s).ok THEN Token(indent, "simple", <<>>, FALSE, SimpleStmt(s))
        ELSE Token(indent, "invalid", <<>>, FALSE, NoStmt)

\* The statements of the text in order, each with its line number
Items(lines) ==
    LET toks == [i \in 1..Len(lines) |-> Lex(lines[i])]
        at == SortedSeq({i \in 1..Len(lines) : toks[i].kind # "skip"})
    IN  [k \in 1..Len(at) |-> [lineno |-> at[k], tok |-> toks[at[k]]]]

\* The statement whose block holds item k: the nearest one before it that
\* is indented less (0: the module)
Parent(items, k) ==
    LET P == {p \in 1..(k - 1) : items[p].tok.indent < items[k].tok.indent}
    IN  IF P = {} THEN 0 ELSE Max(P)

\* The parser accepts the text
Parseable(items) ==
    /\ \A k \in 1..Len(items) :
          /\ items[k].tok.kind # "invalid"
          /\ LET p == Parent(items, k)
             IN  IF p = 0 THEN items[k].tok.indent = 0
                 ELSE /\ items[p].tok.header
                      /\ items[k].tok.indent = items[p + 1].tok.indent
    /\ \A h \in 1..Len(items) :
          items[h].tok.header =>
              /\ h < Len(items)
              /\ items[h + 1].tok.indent > items[h].tok.indent

Root == <<0, 1>>

Node(kind, name, kids, body, lineno, isstr) ==
    [kind |-> kind, name |-> name, kids |-> kids, body |-> body,
     lineno |-> lineno, isstr |-> isstr]

\* The nodes of a simple statement placed at <<k, j>>, its operands after it
StmtNode(k, j, stmt, lineno) ==
    Node(stmt.kind, <<>>, [i \in 1..Len(stmt.operands) |-> <<k, j + i>>], <<>>, lineno, FALSE)

OperandNode(operand, lineno) ==
    Node(operand.kind, operand.id, <<>>, <<>>, lineno, operand.isstr)

BlockOf(items, p) ==
    LET ks == SortedSeq({k \in 1..Len(items) : Parent(items, k) = p})
    IN  [i \in 1..Len(ks) |-> <<ks[i], 1>>]

NodeIds(items) ==
    {Root} \cup
    UNION {
        LET tok == items[k].tok
            n == IF tok.kind = "simple" THEN 1 + Len(tok.stmt.operands)
                 ELSE IF tok.header THEN 1
                 ELSE 2 + Len(tok.stmt.operands)
        IN  {<<k, j>> : j \in 1..n}
        : k \in 1..Len(items) }

\* The tree of a parseable text: node ids to nodes.  Leaves that hold no
\* name (an empty argument list, the Load and Store contexts) are left out.
BuildTree(items) ==
    [id \in NodeIds(items) |->
        IF id = Root THEN Node("Module", <<>>, <<>>, BlockOf(items, 0), 0, FALSE)
        ELSE LET k == id[1]
                 j == id[2]
                 tok == items[k].tok
                 ln == items[k].lineno
             IN  IF tok.kind = "simple"
                 THEN IF j = 1 THEN StmtNode(k, 1, tok.stmt, ln)
                      ELSE OperandNode(tok.stmt.operands[j - 1], ln)
                 ELSE IF j = 1
                      THEN Node(tok.kind, tok.name, <<>>,
                                IF tok.header THEN BlockOf(items, k) ELSE << <<k, 2>> >>,
                                ln, FALSE)
                      ELSE IF j = 2 THEN StmtNode(k, 2, tok.stmt, ln)
                      ELSE OperandNode(tok.stmt.operands[j - 2], ln)]

NoTree == <<>>

\* ast.parse(code): the tree, or SyntaxError raised
parse(text) ==
    LET items == Items(split(text, "\n"))
    IN  IF Parseable(items) THEN [raised |-> FALSE, tree |-> BuildTree(items)]
        ELSE [raised |-> TRUE, tree |-> NoTree]

\* ast.iter_child_nodes(node): the fields in their declared order
iter_child_nodes(t, id) == t[id].kids \o t[id].body

\* ast.walk(tree): a queue, first in first out
RECURSIVE WalkFrom(_, _)
WalkFrom(t, todo) ==
    IF todo = <<>> THEN <<>>
    ELSE <<Head(todo)>> \o WalkFrom(t, Tail(todo) \o iter_child_nodes(t, Head(todo)))

\* A variant that walks depth first: the children go to the front
RECURSIVE WalkStack(_, _)
WalkStack(t, todo) ==
    IF todo = <<>> THEN <<>>
    ELSE <<Head(todo)>> \o WalkStack(t, iter_child_nodes(t, Head(todo)) \o Tail(todo))

walk_depth_first(t) == WalkStack(t, <<Root>>)

walk(t) == WalkFrom(t, <<Root>>)

\* ast.get_docstring(node) is a non-empty string
get_docstring(t, id) ==
    /\ t[id].body # <<>>
    /\ LET first == t[t[id].body[1]]
       IN  /\ first.kind = "Expr"
           /\ t[first.kids[1]].kind = "Constant"
           /\ t[first.kids[1]].isstr

---------------------------------------------------------------------------
(* The scorers.                                                            *)

\* The loop of analyze_code_complexity over the lines, from the counter c
RECURSIVE CountCommentLines(_, _)
CountCommentLines(lines, c) ==
    IF lines = <<>> THEN c
    ELSE CountCommentLines(Tail(lines),
                           IF startswith(strip(Head(lines)), <<"#">>) THEN c + 1 ELSE c)

analyze_code_complexity(text) == CountCommentLines(split(text, "\n"), 0)

\* A variant that takes each penalty once per occurrence
Occurrences(s, p) ==
    Cardinality({i \in 0..(Len(s) - Len(p)) : SubSeq(s, i + 1, i + Len(p)) = p})

analyze_code_quality_per_occurrence(text) ==
    analyze_code_complexity(text)
    - 10 * Occurrences(text, <<"g","o","t","o">>) - 5 * Occurrences(text, <<"m","a","g","i","c","_","n","u","m","b","e","r">>)

analyze_code_quality(text) ==
    LET s0 == 0 + analyze_code_complexity(text)
        s1 == IF contains(text, <<"g","o","t","o">>) THEN s0 - 10 ELSE s0
        s2 == IF contains(text, <<"m","a","g","i","c","_","n","u","m","b","e","r">>) THEN s1 - 5 ELSE s1
    IN  s2

---------------------------------------------------------------------------
(* The structural analyser.  A quotient is kept as a fraction.             *)

Fraction(n, d) == [num |-> n, den |-> d]

\* A variant that takes class definitions for functions
FunctionLengthsWithClasses(t) ==
    LET order == WalkFrom(t, <<Root>>)
        defs == SelectSeq(order, LAMBDA id : t[id].kind \in {"FunctionDef", "ClassDef"})
    IN  [i \in 1..Len(defs) |-> Len(t[defs[i]].body)]

\* The list function_lengths, in walk order
FunctionLengths(t) ==
    LET order == walk(t)
        defs == SelectSeq(order, LAMBDA id : t[id].kind = "FunctionDef")
    IN  [i \in 1..Len(defs) |-> Len(t[defs[i]].body)]

calculate_average_function_length(t) ==
    LET function_lengths == FunctionLengths(t)
    IN  IF function_lengths # <<>>
        THEN Fraction(SumSeq(function_lengths), Len(function_lengths))
        ELSE Fraction(0, 1)

---------------------------------------------------------------------------
(* The naming checker.                                                     *)

\* A return statement outside any function body, which the compiler refuses
RECURSIVE ReturnOutsideFunction(_, _, _)
ReturnOutsideFunction(t, body, infunction) ==
    \E i \in 1..Len(body) :
        LET n == t[body[i]]
        IN  \/ n.kind = "Return" /\ ~infunction
            \/ n.kind = "ClassDef" /\ ReturnOutsideFunction(t, n.body, FALSE)
            \/ n.kind = "FunctionDef" /\ ReturnOutsideFunction(t, n.body, TRUE)

\* None, and a code object: the handle of a compiled tree
None == [compiled |-> FALSE, code_of |-> NoTree]
CodeObject(t) == [compiled |-> TRUE, code_of |-> t]

\* compile(tree, filename='', mode='exec'): a code object of the tree as it
\* is now, or SyntaxError raised
compile(t) ==
    IF ReturnOutsideFunction(t, t[Root].body, FALSE) THEN [raised |-> TRUE, code |-> None]
    ELSE [raised |-> FALSE, code |-> CodeObject(t)]

FunctionNameMessage(name) ==
    <<"F","u","n","c","t","i","o","n"," ","n","a","m","e"," ","'">> \o name \o <<"'"," ","s","h","o","u","l","d"," ","b","e"," ","i","n"," ","l","o","w","e","r","c","a","s","e",".">>

UppercaseVariableMessage(name) ==
    <<"V","a","r","i","a","b","l","e"," ","n","a","m","e"," ","'">> \o name \o <<"'"," ","s","h","o","u","l","d"," ","n","o","t"," ","b","e"," ","i","n"," ","u","p","p","e","r","c","a","s","e",".">>

PatternVariableMessage(name) ==
    <<"V","a","r","i","a","b","l","e"," ","n","a","m","e"," ","'">> \o name \o <<"'"," ","d","o","e","s"," ","n","o","t"," ","f","o","l","l","o","w"," ","n","a","m","i","n","g"," ","c","o","n","v","e","n","t","i","o","n","s",".">>

\* One node of the walk of check_naming_conventions
NamingVisit(acc, id) ==
    LET node == acc.tree[id]
        renamed == [acc.tree EXCEPT ![id].name = lower(node.name)]
    IN  IF node.kind = "FunctionDef" /\ ~islower(node.name)
        THEN [tree |-> renamed,
              violations |-> Append(acc.violations, FunctionNameMessage(node.name)),
              modified_code |-> IF compile(renamed).raised
                                THEN acc.modified_code ELSE compile(renamed).code,
              raised |-> compile(renamed).raised]
        ELSE IF node.kind = "Name" /\ isupper(node.name)
        THEN [tree |-> renamed,
              violations |-> Append(acc.violations, UppercaseVariableMessage(node.name)),
              modified_code |-> IF compile(renamed).raised
                                THEN acc.modified_code ELSE compile(renamed).code,
              raised |-> compile(renamed).raised]
        ELSE IF node.kind = "Name" /\ ~MatchesNamePattern(node.name)
        THEN [acc EXCEPT !.violations = Append(@, PatternVariableMessage(node.name))]
        ELSE acc

\* The walk, which an exception ends
RECURSIVE NamingLoop(_, _)
NamingLoop(order, acc) ==
    IF order = <<>> \/ acc.raised THEN acc
    ELSE NamingLoop(Tail(order), NamingVisit(acc, Head(order)))

\* check_naming_conventions(tree): the tree as the call leaves it, what it
\* returns (violations, modified_code), and whether it raised instead
check_naming_conventions(t) ==
    NamingLoop(walk(t),
               [tree |-> t, violations |-> <<>>, modified_code |-> None, raised |-> FALSE])

---------------------------------------------------------------------------
(* The style recommender.                                                  *)

\* s[:k] and s[k:] for k >= 0
SliceTo(s, k) == Take(s, IF k < Len(s) THEN k ELSE Len(s))
SliceFrom(s, k) == Drop(s, IF k < Len(s) THEN k ELSE Len(s))

\* str(n) for n >= 0
RECURSIVE Decimal(_)
Decimal(n) ==
    IF n < 10 THEN <<DigitSeq[n + 1]>>
    ELSE Decimal(n \div 10) \o <<DigitSeq[(n % 10) + 1]>>

FunctionCommentMessage(name) ==
    <<"C","o","n","s","i","d","e","r"," ","a","d","d","i","n","g"," ","c","o","m","m","e","n","t","s"," ","t","o"," ","f","u","n","c","t","i","o","n"," ","'">> \o name \o <<"'",".">>

ClassCommentMessage(name) ==
    <<"C","o","n","s","i","d","e","r"," ","a","d","d","i","n","g"," ","c","o","m","m","e","n","t","s"," ","t","o"," ","c","l","a","s","s"," ","'">> \o name \o <<"'",".">>

ModuleCommentMessage == <<"C","o","n","s","i","d","e","r"," ","a","d","d","i","n","g"," ","c","o","m","m","e","n","t","s"," ","h","e","r","e",".">>

LineLengthMessage(i) ==
    <<"C","o","n","s","i","d","e","r"," ","s","p","l","i","t","t","i","n","g"," ","l","i","n","e"," ">> \o Decimal(i)
    \o <<" ","a","s"," ","i","t"," ","e","x","c","e","e","d","s"," ","t","h","e"," ","l","i","n","e"," ","l","e","n","g","t","h"," ","l","i","m","i","t"," ","o","f"," ">> \o Decimal(line_length_limit)
    \o <<" ","c","h","a","r","a","c","t","e","r","s",".">>

\* A variant of the module placeholder that opens with a line break
ModulePlaceholderWithBreak == <<"\n","#"," ","A","d","d"," ","c","o","m","m","e","n","t","s"," ","h","e","r","e","\n">>

ModulePlaceholder == <<"#"," ","A","d","d"," ","c","o","m","m","e","n","t","s"," ","h","e","r","e","\n">>
BodyPlaceholder == <<"\n","#"," ","A","d","d"," ","c","o","m","m","e","n","t","s"," ","h","e","r","e","\n">>
ContinuationMarker == <<"\\","\n">>
NoRecommendationsMessage == <<"N","o"," ","c","o","d","i","n","g"," ","s","t","y","l","e"," ","r","e","c","o","m","m","e","n","d","a","t","i","o","n","s"," ","f","o","u","n","d",".">>
NoModifiedText == <<"N","o"," ","m","o","d","i","f","i","e","d"," ","a","c","t","i","o","n","s"," ","a","p","p","l","i","e","d">>

\* One node of the documentation walk
StyleVisit(text, t, acc, id) ==
    LET node == t[id]
        lines == split(text, "\n")
    IN  IF node.kind \in {"FunctionDef", "ClassDef", "Module"} /\ ~get_docstring(t, id)
        THEN IF node.kind \in {"FunctionDef", "ClassDef"}
             THEN LET line_number == t[node.body[1]].lineno
                  IN  IF startswith(strip(lines[line_number]), <<"#">>) THEN acc
                      ELSE [recommendations |->
                                Append(acc.recommendations,
                                       IF node.kind = "FunctionDef"
                                       THEN FunctionCommentMessage(node.name)
                                       ELSE ClassCommentMessage(node.name)),
                            modified_code |->
                                SliceTo(acc.modified_code, line_number - 1)
                                \o BodyPlaceholder
                                \o SliceFrom(acc.modified_code, line_number - 1)]
             ELSE IF startswith(strip(lines[1]), <<"#">>) THEN acc
                  ELSE [recommendations |-> Append(acc.recommendations, ModuleCommentMessage),
                        modified_code |-> ModulePlaceholder \o acc.modified_code]
        ELSE acc

RECURSIVE StyleLoop(_, _, _, _)
StyleLoop(text, t, order, acc) ==
    IF order = <<>> THEN acc
    ELSE StyleLoop(text, t, Tail(order), StyleVisit(text, t, acc, Head(order)))

\* The line length loop, at line i
RECURSIVE LineLengthLoop(_, _, _)
LineLengthLoop(lines, i, acc) ==
    IF i > Len(lines) THEN acc
    ELSE LineLengthLoop(lines, i + 1,
            IF Len(lines[i]) > line_length_limit
            THEN [recommendations |-> Append(acc.recommendations, LineLengthMessage(i)),
                  modified_code |->
                      SliceTo(acc.modified_code, i - 1) \o ContinuationMarker
                      \o SliceFrom(acc.modified_code, i)]
            ELSE acc)

\* What the two loops leave: the recommendations and the working copy
StyleWork(text, t) ==
    LineLengthLoop(split(text, "\n"), 1,
        StyleLoop(text, t, walk(t), [recommendations |-> <<>>, modified_code |-> text]))

\* A variant that returns what the loops left, without the sentinels
recommend_coding_style_as_is(text) ==
    IF parse(text).raised
    THEN [raised |-> TRUE, recommendations |-> <<>>, modified_code |-> <<>>]
    ELSE [raised |-> FALSE,
          recommendations |-> StyleWork(text, parse(text).tree).recommendations,
          modified_code |-> StyleWork(text, parse(text).tree).modified_code]

\* recommend_coding_style(code)
recommend_coding_style(text) ==
    LET parsed == parse(text)
    IN  IF parsed.raised
        THEN [raised |-> TRUE, recommendations |-> <<>>, modified_code |-> <<>>]
        ELSE LET work == StyleWork(text, parsed.tree)
             IN  IF work.recommendations = <<>>
                 THEN [raised |-> FALSE,
                       recommendations |-> <<NoRecommendationsMessage>>,
                       modified_code |-> NoModifiedText]
                 ELSE [raised |-> FALSE,
                       recommendations |-> work.recommendations,
                       modified_code |-> work.modified_code]

---------------------------------------------------------------------------
(* The duplicate line detector and difflib.SequenceMatcher(None, a, b).    *)
(* Positions are counted from 0, as in the library.                        *)

\* The elements of b that autojunk drops from the index b2j
Popular(b) ==
    IF Len(b) >= 200
    THEN {c \in Range(b) : Cardinality({j \in 1..Len(b) : b[j] = c}) > (Len(b) \div 100) + 1}
    ELSE {}

\* a[i] pairs with b[j] through the index b2j
Hit(a, b, i, j) == a[i + 1] = b[j + 1] /\ b[j + 1] \notin Popular(b)

\* The length of the run of hits that starts at (i, j), inside the window
RECURSIVE RunLength(_, _, _, _, _, _)
RunLength(a, b, i, j, ahi, bhi) ==
    IF i < ahi /\ j < bhi /\ Hit(a, b, i, j)
    THEN 1 + RunLength(a, b, i + 1, j + 1, ahi, bhi)
    ELSE 0

\* One step back, then forward, over equal elements next to the block
RECURSIVE ExtendBack(_, _, _, _, _)
ExtendBack(a, b, m, alo, blo) ==
    IF m.i > alo /\ m.j > blo /\ a[m.i] = b[m.j]
    THEN ExtendBack(a, b, [i |-> m.i - 1, j |-> m.j - 1, k |-> m.k + 1], alo, blo)
    ELSE m

RECURSIVE ExtendForward(_, _, _, _, _)
ExtendForward(a, b, m, ahi, bhi) ==
    IF m.i + m.k < ahi /\ m.j + m.k < bhi /\ a[m.i + m.k + 1] = b[m.j + m.k + 1]
    THEN ExtendForward(a, b, [m EXCEPT !.k = @ + 1], ahi, bhi)
    ELSE m

\* find_longest_match(alo, ahi, blo, bhi): the longest block, the earliest
\* in a and then the earliest in b among the longest
find_longest_match(a, b, alo, ahi, blo, bhi) ==
    LET starts == {p \in (alo..(ahi - 1)) \X (blo..(bhi - 1)) :
                      /\ Hit(a, b, p[1], p[2])
                      /\ \/ p[1] = alo
                         \/ p[2] = blo
                         \/ ~Hit(a, b, p[1] - 1, p[2] - 1)}
        runs == {[i |-> p[1], j |-> p[2], k |-> RunLength(a, b, p[1], p[2], ahi, bhi)] : p \in starts}
        best == IF runs = {} THEN [i |-> alo, j |-> blo, k |-> 0]
                ELSE CHOOSE r \in runs : \A q \in runs :
                        \/ r.k > q.k
                        \/ r.k = q.k /\ r.i < q.i
                        \/ r.k = q.k /\ r.i = q.i /\ r.j <= q.j
    IN  ExtendForward(a, b, ExtendBack(a, b, best, alo, blo), ahi, bhi)

\* The total size of the blocks get_matching_blocks collects in the window
RECURSIVE MatchedSize(_, _, _, _, _, _)
MatchedSize(a, b, alo, ahi, blo, bhi) ==
    LET m == find_longest_match(a, b, alo, ahi, blo, bhi)
    IN  IF m.k = 0 THEN 0
        ELSE m.k
             + (IF alo < m.i /\ blo < m.j THEN MatchedSize(a, b, alo, m.i, blo, m.j) ELSE 0)
             + (IF m.i + m.k < ahi /\ m.j + m.k < bhi
                THEN MatchedSize(a, b, m.i + m.k, ahi, m.j + m.k, bhi) ELSE 0)

\* SequenceMatcher(None, a, b).ratio(): 2.0 * matches / length, 1.0 for two
\* empty sequences
ratio(a, b) ==
    IF Len(a) + Len(b) > 0
    THEN Fraction(2 * MatchedSize(a, b, 0, Len(a), 0, Len(b)), Len(a) + Len(b))
    ELSE Fraction(1, 1)

\* similarity > 0.8
ExceedsThreshold(similarity) == similarity.num * 10 > 8 * similarity.den

\* A variant that forgets the offset of the slice
RECURSIVE InnerLoopShifted(_, _, _, _, _)
InnerLoopShifted(line1, rest, i, j, repeated_code) ==
    IF j >= Len(rest) THEN repeated_code
    ELSE InnerLoopShifted(line1, rest, i, j + 1,
            IF ExceedsThreshold(ratio(line1, rest[j + 1]))
            THEN Append(repeated_code, <<i, j + i>>)
            ELSE repeated_code)

\* The inner loop of detect_repeated_code: line i against rest = lines[i+1:]
RECURSIVE InnerLoop(_, _, _, _, _)
InnerLoop(line1, rest, i, j, repeated_code) ==
    IF j >= Len(rest) THEN repeated_code
    ELSE InnerLoop(line1, rest, i, j + 1,
            IF ExceedsThreshold(ratio(line1, rest[j + 1]))
            THEN Append(repeated_code, <<i, j + i + 1>>)
            ELSE repeated_code)

RECURSIVE OuterLoop(_, _, _)
OuterLoop(lines, i, repeated_code) ==
    IF i >= Len(lines) THEN repeated_code
    ELSE OuterLoop(lines, i + 1,
                   InnerLoop(lines[i + 1], Drop(lines, i + 1), i, 0, repeated_code))

detect_repeated_code(text) == OuterLoop(split(text, "\n"), 0, <<>>)

---------------------------------------------------------------------------
(* The state machines.                                                     *)

NoNaming == [raised |-> FALSE, violations |-> <<>>, modified_code |-> None]
NoStyle == [raised |-> FALSE, recommendations |-> <<>>, modified_code |-> <<>>]
EmptyDict == <<>>

\* result[key] = value
SetItem(dict, key, value) == [k \in DOMAIN dict \cup {key} |->
                                 IF k = key THEN value ELSE dict[k]]

Fresh ==
    /\ tree = NoTree
    /\ result = EmptyDict
    /\ naming = NoNaming
    /\ previous = NoNaming
    /\ calls = 0
    /\ style = NoStyle
    /\ repeated = <<>>
    /\ status = -1

(* The entry point: the prompt, analyze_code under try/except, the report. *)

\* What input() can return: one line
InputLines ==
    TextVocabulary \cup TreeVocabulary \cup { <<"r","e","t","u","r","n"," ","F","O","O">>, <<"r","e","t","u","r","n">>, <<"d","e","f">>, <<" ">> }

Init ==
    /\ code = <<>>
    /\ pc = "prompt"
    /\ Fresh

\* code = input(...).strip(), asked again while it is empty
ReadInput ==
    /\ pc = "prompt"
    /\ \E line \in InputLines :
          /\ code' = strip(line)
          /\ pc' = IF strip(line) = <<>> THEN "prompt" ELSE "complexity"
    /\ UNCHANGED <<tree, result, naming, previous, calls, style, repeated, status>>

\* result['complexity_score'] = analyze_code_complexity(code)
ScoreComplexity ==
    /\ pc = "complexity"
    /\ result' = SetItem(result, "complexity_score", analyze_code_complexity(code))
    /\ pc' = "quality"
    /\ UNCHANGED <<code, tree, naming, previous, calls, style, repeated, status>>

\* result['quality_score'] = analyze_code_quality(code)
ScoreQuality ==
    /\ pc = "quality"
    /\ result' = SetItem(result, "quality_score", analyze_code_quality(code))
    /\ pc' = "parse"
    /\ UNCHANGED <<code, tree, naming, previous, calls, style, repeated, status>>

\* tree = ast.parse(code)
ParseTree ==
    /\ pc = "parse"
    /\ tree' = parse(code).tree
    /\ pc' = IF parse(code).raised THEN "raised" ELSE "length"
    /\ UNCHANGED <<code, result, naming, previous, calls, style, repeated, status>>

\* result['average_function_length'] = calculate_average_function_length(tree)
AverageLength ==
    /\ pc = "length"
    /\ result' = SetItem(result, "average_function_length",
                         calculate_average_function_length(tree))
    /\ pc' = "naming"
    /\ UNCHANGED <<code, tree, naming, previous, calls, style, repeated, status>>

\* result['naming_violations'] = check_naming_conventions(tree)
NamingViolations ==
    /\ pc = "naming"
    /\ LET r == check_naming_conventions(tree)
       IN  /\ tree' = r.tree
           /\ result' = IF r.raised THEN result
                        ELSE SetItem(result, "naming_violations",
                                     <<r.violations, r.modified_code>>)
           /\ pc' = IF r.raised THEN "raised" ELSE "style"
    /\ UNCHANGED <<code, naming, previous, calls, style, repeated, status>>

\* result['recommendations'] = recommend_coding_style(code); return result
Recommendations ==
    /\ pc = "style"
    /\ LET r == recommend_coding_style(code)
       IN  /\ result' = IF r.raised THEN result
                        ELSE SetItem(result, "recommendations",
                                     <<r.recommendations, r.modified_code>>)
           /\ pc' = IF r.raised THEN "raised" ELSE "returned"
    /\ UNCHANGED <<code, tree, naming, previous, calls, style, repeated, status>>

\* except SyntaxError: ... exit(1)
HandleSyntaxError ==
    /\ pc = "raised"
    /\ status' = 1
    /\ pc' = "exited"
    /\ UNCHANGED <<code, tree, result, naming, previous, calls, style, repeated>>

\* The scores and the modified code are printed from analysis_results
Report ==
    /\ pc = "returned"
    /\ style' = [raised |-> FALSE,
                 recommendations |-> result["recommendations"][1],
                 modified_code |-> result["recommendations"][2]]
    /\ pc' = "reparse"
    /\ UNCHANGED <<code, tree, result, naming, previous, calls, repeated, status>>

\* tree = ast.parse(code); check_naming_conventions(tree), outside the try
NamingReport ==
    /\ pc = "reparse"
    /\ LET r == check_naming_conventions(parse(code).tree)
       IN  /\ tree' = r.tree
           /\ naming' = [raised |-> r.raised, violations |-> r.violations,
                         modified_code |-> r.modified_code]
           /\ pc' = IF r.raised THEN "traceback" ELSE "duplicates"
    /\ UNCHANGED <<code, result, previous, calls, style, repeated, status>>

\* repeated_code = detect_repeated_code(code), printed
DuplicateReport ==
    /\ pc = "duplicates"
    /\ repeated' = detect_repeated_code(code)
    /\ pc' = "tables"
    /\ UNCHANGED <<code, tree, result, naming, previous, calls, style, status>>

\* The tables, the plot and the sets; the script ends
Finish ==
    /\ pc = "tables"
    /\ status' = 0
    /\ pc' = "exited"
    /\ UNCHANGED <<code, tree, result, naming, previous, calls, style, repeated>>

Next ==
    \/ ReadInput
    \/ ScoreComplexity
    \/ ScoreQuality
    \/ ParseTree
    \/ AverageLength
    \/ NamingViolations
    \/ Recommendations
    \/ HandleSyntaxError
    \/ Report
    \/ NamingReport
    \/ DuplicateReport
    \/ Finish

Spec == Init /\ [][Next]_vars

(* The functions of a text, each called on every text.                     *)

InitText ==
    /\ code \in TextsOver(TextVocabulary)
    /\ pc = "call"
    /\ Fresh

\* The two scores, as analyze_code takes them
CallScores ==
    /\ pc = "call"
    /\ result' = SetItem(SetItem(result, "complexity_score", analyze_code_complexity(code)),
                         "quality_score", analyze_code_quality(code))
    /\ pc' = "scored"
    /\ UNCHANGED <<code, tree, naming, previous, calls, style, repeated, status>>

CallDetectRepeated ==
    /\ pc = "call"
    /\ repeated' = detect_repeated_code(code)
    /\ pc' = "compared"
    /\ UNCHANGED <<code, tree, result, naming, previous, calls, style, status>>

NextText == CallScores \/ CallDetectRepeated

SpecText == InitText /\ [][NextText]_vars

(* The tree walkers and the style recommender, each called on every text   *)
(* that parses; the naming checker again and again on the same tree.       *)

InitTree ==
    /\ code \in {text \in TextsOver(TreeVocabulary) : ~parse(text).raised}
    /\ pc = "call"
    /\ tree = parse(code).tree
    /\ result = EmptyDict
    /\ naming = NoNaming
    /\ previous = NoNaming
    /\ calls = 0
    /\ style = NoStyle
    /\ repeated = <<>>
    /\ status = -1

CallAverageLength ==
    /\ pc = "call"
    /\ result' = SetItem(result, "average_function_length",
                         calculate_average_function_length(tree))
    /\ pc' = "measured"
    /\ UNCHANGED <<code, tree, naming, previous, calls, style, repeated, status>>

\* check_naming_conventions(tree) on the tree the last call left
CallCheckNaming ==
    /\ pc \in {"call", "named"}
    /\ calls < MaxCalls
    /\ LET r == check_naming_conventions(tree)
       IN  /\ tree' = r.tree
           /\ naming' = [raised |-> r.raised, violations |-> r.violations,
                         modified_code |-> r.modified_code]
    /\ previous' = naming
    /\ calls' = calls + 1
    /\ pc' = "named"
    /\ UNCHANGED <<code, result, style, repeated, status>>

CallRecommendStyle ==
    /\ pc = "call"
    /\ style' = recommend_coding_style(code)
    /\ pc' = "styled"
    /\ UNCHANGED <<code, tree, result, naming, previous, calls, repeated, status>>

NextTree == CallAverageLength \/ CallCheckNaming \/ CallRecommendStyle

SpecTree == InitTree /\ [][NextTree]_vars

---------------------------------------------------------------------------
(* The properties.                                                         *)

Lines(text) == split(text, "\n")

\* The lines that are comment lines, by position
CommentLines(text) ==
    {i \in 1..Len(Lines(text)) :
        LET l == strip(Lines(text)[i]) IN l # <<>> /\ l[1] = "#"}

\* C1: the quality score of every text is the number of its comment lines
\* (never negative), less 10 if the text contains "goto" and less 5 if it
\* contains "magic_number", however often either occurs.
C1_QualityScore ==
    pc = "scored" =>
        /\ result["complexity_score"] = Cardinality(CommentLines(code))
        /\ result["complexity_score"] >= 0
        /\ result["quality_score"] =
              result["complexity_score"]
              - (IF contains(code, <<"g","o","t","o">>) THEN 10 ELSE 0)
              - (IF contains(code, <<"m","a","g","i","c","_","n","u","m","b","e","r">>) THEN 5 ELSE 0)

\* Two comment lines that both hold "goto", and "magic_number": 2 - 10 - 5
C1_Witness ==
    /\ pc = "scored"
    /\ Occurrences(code, <<"g","o","t","o">>) = 2
    /\ result["complexity_score"] = 2
    /\ result["quality_score"] = -13

\* The tree as the parser built it, before any call renamed a node
Original == parse(code).tree

FunctionDefs(t) == {id \in DOMAIN t : t[id].kind = "FunctionDef"}
Names(t) == {id \in DOMAIN t : t[id].kind = "Name"}

HasUppercase(s) == \E i \in 1..Len(s) : s[i] \in UpperChars

\* C2: a second call of check_naming_conventions on the same tree returns
\* an empty violation list, whatever the tree.
C2_SecondCallEmpty ==
    (pc = "named" /\ calls >= 2 /\ ~naming.raised) => naming.violations = <<>>

\* C3: a function's message is emitted, and its name lowered, exactly when
\* the name holds an uppercase character; a function name without one
\* draws no violation and no rewrite, and no compiled artifact when no
\* other node is rewritten either.
C3_FunctionNames ==
    (pc = "named" /\ calls = 1 /\ ~naming.raised) =>
        /\ \A id \in FunctionDefs(Original) :
              LET name == Original[id].name
              IN  /\ (\E k \in 1..Len(naming.violations) :
                          naming.violations[k] = FunctionNameMessage(name))
                     <=> HasUppercase(name)
                  /\ tree[id].name = IF HasUppercase(name) THEN lower(name) ELSE name
        /\ (\A id \in FunctionDefs(Original) : ~HasUppercase(Original[id].name))
           /\ (\A id \in Names(Original) : ~isupper(Original[id].name))
           => naming.modified_code = None

RECURSIVE SumOver(_, _)
SumOver(S, t) ==
    IF S = {} THEN 0
    ELSE LET id == CHOOSE x \in S : TRUE
         IN  Len(t[id].body) + SumOver(S \ {id}, t)

\* C4: the average function length is 0 exactly when the tree holds no
\* function definition; otherwise it is the mean, over the function
\* definitions (nested ones too), of the number of statements directly in
\* the body.
C4_AverageLength ==
    pc = "measured" =>
        LET avg == result["average_function_length"]
            defs == FunctionDefs(tree)
        IN  /\ avg.num = 0 <=> defs = {}
            /\ defs # {} =>
                  avg.num * Cardinality(defs) = avg.den * SumOver(defs, tree)

\* A function of two statements, one of them a function of one: 3 / 2
C4_Witness ==
    /\ pc = "measured"
    /\ Cardinality(FunctionDefs(tree)) = 2
    /\ \E id \in FunctionDefs(tree) :
          \E k \in 1..Len(tree[id].body) : tree[id].body[k] \in FunctionDefs(tree)
    /\ result["average_function_length"] = Fraction(3, 2)

\* The pairs of line positions i < j whose lines are more than 0.8 similar
SimilarPairs(text) ==
    LET n == Len(Lines(text))
    IN  {p \in (0..(n - 1)) \X (0..(n - 1)) :
            /\ p[1] < p[2]
            /\ ExceedsThreshold(ratio(Lines(text)[p[1] + 1], Lines(text)[p[2] + 1]))}

\* C5: detect_repeated_code returns exactly the pairs (i, j), i < j, of
\* lines more than 0.8 similar, each once, by ascending i and, within one
\* i, ascending j.
C5_RepeatedPairs ==
    pc = "compared" =>
        /\ Range(repeated) = SimilarPairs(code)
        /\ Len(repeated) = Cardinality(SimilarPairs(code))
        /\ \A k, l \in 1..Len(repeated) :
              k < l => \/ repeated[k][1] < repeated[l][1]
                       \/ /\ repeated[k][1] = repeated[l][1]
                          /\ repeated[k][2] < repeated[l][2]

\* Three lines, each pair similar, two of the lines not equal
C5_Witness ==
    /\ pc = "compared"
    /\ repeated = << <<0, 1>>, <<0, 2>>, <<1, 2>> >>
    /\ Lines(code)[1] # Lines(code)[2]

\* The placeholder comment line and the real recommendations, spelled out
PlaceholderLine == <<"#"," ","A","d","d"," ","c","o","m","m","e","n","t","s"," ","h","e","r","e","\n">>
ModuleMessage == <<"C","o","n","s","i","d","e","r"," ","a","d","d","i","n","g"," ","c","o","m","m","e","n","t","s"," ","h","e","r","e",".">>
SentinelMessage == <<"N","o"," ","c","o","d","i","n","g"," ","s","t","y","l","e"," ","r","e","c","o","m","m","e","n","d","a","t","i","o","n","s"," ","f","o","u","n","d",".">>
SentinelText == <<"N","o"," ","m","o","d","i","f","i","e","d"," ","a","c","t","i","o","n","s"," ","a","p","p","l","i","e","d">>

SingleUndocumentedLine ==
    /\ Len(Lines(code)) = 1
    /\ CommentLines(code) = {}
    /\ ~get_docstring(Original, Root)

\* C6 as stated: on a parseable text of one line that is no comment line
\* and has no documentation string, the only recommendation is the module
\* one and the modified text is the placeholder line and then the text.
C6_SingleLine ==
    (pc = "styled" /\ SingleUndocumentedLine) =>
        /\ style.recommendations = <<ModuleMessage>>
        /\ style.modified_code = PlaceholderLine \o code

\* C6 amended: so it is when, besides, the line holds no function or class
\* definition without a documentation string and is at most 79 characters
\* long.
C6_SingleLineAmended ==
    (/\ pc = "styled"
     /\ SingleUndocumentedLine
     /\ \A id \in DOMAIN Original :
           Original[id].kind \in {"FunctionDef", "ClassDef"} => get_docstring(Original, id)
     /\ Len(code) <= 79) =>
        /\ style.recommendations = <<ModuleMessage>>
        /\ style.modified_code = PlaceholderLine \o code

C6_Witness ==
    /\ pc = "styled"
    /\ SingleUndocumentedLine
    /\ FunctionDefs(Original) = {}
    /\ Len(code) > 0 /\ Len(code) <= 79
    /\ style.modified_code = PlaceholderLine \o code

\* C7: analyze_code fails with a syntax failure exactly when the text does
\* not parse, and the entry point exits with status 1 only then.
C7_SyntaxFailure ==
    /\ pc = "raised" => parse(code).raised
    /\ pc \in {"length", "naming", "style", "returned", "reparse", "duplicates", "tables"}
          => ~parse(code).raised
    /\ status = 1 => parse(code).raised
    /\ pc = "raised" => "recommendations" \notin DOMAIN result

\* The nodes that draw a documentation recommendation, and the long lines
Undocumented(text, t) ==
    {id \in DOMAIN t :
        /\ t[id].kind \in {"FunctionDef", "ClassDef", "Module"}
        /\ ~get_docstring(t, id)
        /\ LET n == IF t[id].kind = "Module" THEN 1 ELSE t[t[id].body[1]].lineno
           IN  n \notin CommentLines(text)}

Overlong(text) == {i \in 1..Len(Lines(text)) : Len(Lines(text)[i]) > 79}

\* C8: the recommendation list is never empty; with no documentation and
\* no line length recommendation it is the sentinel message alone, with
\* the sentinel text; otherwise the text is the working copy and the
\* sentinel message is not in the list.
C8_Sentinel ==
    pc = "styled" =>
        LET t == Original
        IN  /\ style.recommendations # <<>>
            /\ IF Undocumented(code, t) = {} /\ Overlong(code) = {}
               THEN /\ style.recommendations = <<SentinelMessage>>
                    /\ style.modified_code = SentinelText
               ELSE /\ \A k \in 1..Len(style.recommendations) :
                          style.recommendations[k] # SentinelMessage
                    /\ style.modified_code = StyleWork(code, t).modified_code
                    /\ style.modified_code # SentinelText

C8_Witness ==
    /\ pc = "styled"
    /\ Len(Lines(code)) >= 2
    /\ style.recommendations = <<SentinelMessage>>
    /\ style.modified_code = SentinelText

\* The nodes in pre-order, each with its depth
RECURSIVE PreOrderFrom(_, _, _)
PreOrderFrom(t, id, depth) ==
    LET children == t[id].kids \o t[id].body
    IN  << <<id, depth>> >>
        \o Concat([i \in 1..Len(children) |-> PreOrderFrom(t, children[i], depth + 1)])

PreOrder(t) ==
    LET tagged == PreOrderFrom(t, Root, 0)
    IN  [i \in 1..Len(tagged) |-> tagged[i][1]]

\* The nodes level by level, each level in pre-order
LevelOrder(t) ==
    LET tagged == PreOrderFrom(t, Root, 0)
        deepest == Max({tagged[i][2] : i \in 1..Len(tagged)})
        level(d) == SelectSeq(tagged, LAMBDA p : p[2] = d)
        byLevel == Concat([d \in 1..(deepest + 1) |-> level(d - 1)])
    IN  [i \in 1..Len(byLevel) |-> byLevel[i][1]]

\* What the naming checker says of one node, and of the nodes in an order
NamingMessages(t, id) ==
    IF t[id].kind = "FunctionDef" /\ ~islower(t[id].name)
    THEN <<FunctionNameMessage(t[id].name)>>
    ELSE IF t[id].kind = "Name" /\ isupper(t[id].name)
    THEN <<UppercaseVariableMessage(t[id].name)>>
    ELSE IF t[id].kind = "Name" /\ ~MatchesNamePattern(t[id].name)
    THEN <<PatternVariableMessage(t[id].name)>>
    ELSE <<>>

NamingMessagesAlong(t, order) ==
    Concat([i \in 1..Len(order) |-> NamingMessages(t, order[i])])

\* What the style recommender says of one node, and of the nodes in an order
DocMessages(t, flagged, id) ==
    IF id \notin flagged THEN <<>>
    ELSE IF t[id].kind = "Module" THEN <<ModuleMessage>>
    ELSE IF t[id].kind = "FunctionDef" THEN <<FunctionCommentMessage(t[id].name)>>
    ELSE <<ClassCommentMessage(t[id].name)>>

StyleMessagesAlong(text, t, order) ==
    LET flagged == Undocumented(text, t)
        long == SortedSeq(Overlong(text))
    IN  Concat([i \in 1..Len(order) |-> DocMessages(t, flagged, order[i])])
        \o [i \in 1..Len(long) |-> LineLengthMessage(long[i])]

MessagesInOrder(t, order) ==
    /\ (pc = "named" /\ calls = 1 /\ ~naming.raised) =>
          naming.violations = NamingMessagesAlong(t, order)
    /\ (pc = "styled" /\ style.recommendations # <<SentinelMessage>>) =>
          style.recommendations = StyleMessagesAlong(code, t, order)

\* C9 as stated: the violations, and the documentation recommendations,
\* list the flagged nodes in pre-order of the tree.
C9_PreOrder ==
    pc \in {"named", "styled"} => LET t == Original IN MessagesInOrder(t, PreOrder(t))

\* C9 amended: they list the flagged nodes breadth first: level by level
\* from the root, and within a level in pre-order.
C9_LevelOrder ==
    pc \in {"named", "styled"} => LET t == Original IN MessagesInOrder(t, LevelOrder(t))

\* A flagged function nested in an earlier sibling of another flagged one
C9_Witness ==
    /\ pc = "named" /\ calls = 1 /\ ~naming.raised
    /\ Len(naming.violations) = 3
    /\ NamingMessagesAlong(Original, PreOrder(Original))
          # NamingMessagesAlong(Original, LevelOrder(Original))
    /\ \A id \in FunctionDefs(Original) : HasUppercase(Original[id].name)

\* a is b with elements left out
RECURSIVE SubsequenceFrom(_, _, _, _)
SubsequenceFrom(a, b, i, j) ==
    IF i > Len(a) THEN TRUE
    ELSE IF j > Len(b) THEN FALSE
    ELSE IF a[i] = b[j] THEN SubsequenceFrom(a, b, i + 1, j + 1)
    ELSE SubsequenceFrom(a, b, i, j + 1)

IsSubsequence(a, b) == SubsequenceFrom(a, b, 1, 1)

\* The length of the marker a recommendation stands for
MarkerLength(message) ==
    IF message = ModuleMessage THEN Len(PlaceholderLine)
    ELSE IF startswith(message, <<"C","o","n","s","i","d","e","r"," ","s","p","l","i","t","t","i","n","g"," ","l","i","n","e"," ">>) THEN 2
    ELSE Len(PlaceholderLine) + 1

\* C10: every splice is an insertion at a line boundary: no character of
\* the text is removed or moved, so the text is a subsequence of the
\* modified text, the lines of the text are lines of the modified text, and
\* the modified text is longer by the lengths of the markers.
C10_PureInsertion ==
    (pc = "styled" /\ style.recommendations # <<SentinelMessage>>) =>
        /\ IsSubsequence(code, style.modified_code)
        /\ IsSubsequence(Lines(code), Lines(style.modified_code))
        /\ Len(style.modified_code) =
              Len(code) + SumSeq([k \in 1..Len(style.recommendations) |->
                                     MarkerLength(style.recommendations[k])])

====
